---- MODULE Spec2Model ----
(***************************************************************************)
(* FlashManager.c: EEPROM emulation on two 128-byte information segments   *)
(* of MSP430 flash (sector 1 = Info C, sector 2 = Info D).  The flash is   *)
(* modelled byte by byte in one flat address space, so that an access past *)
(* the end of a sector lands where the memory map puts it.                 *)
(***************************************************************************)
EXTENDS Integers, Sequences, FiniteSets, TLC

\* ------------------------------------------------------------------------
\* Bounds of the model (not program constants)
\* ------------------------------------------------------------------------
\* number of variable ids the application uses (ids are 1..NumIds)
NumIds == 5
\* ids in use in the runs with oversize values and reads, with flash faults,
\* with power loss
NumApiIds == 2
NumFaultIds == 1
NumCrashIds == 2
\* number of FlashManSetVariable calls that reach flash in one run
MaxWrites == 6
\* the same in the runs with oversize values and reads, with flash faults,
\* with power loss
ApiWrites == 6
FaultWrites == 6
CrashWrites == 7
\* power losses and flash faults of a run
MaxUpsets == 1
\* a flash fault hits one of the first MaxFaultCall flash calls of a
\* FlashManSetVariable
MaxFaultCall == 6
\* flash operations (bytes programmed, sectors erased) before the supply fails
MaxFuel == 64
\* FlashManInit runs in a row
MaxInits == 2
\* ids and writing calls of a run of updates that swaps sectors twice
NumWearIds == 3
WearWrites == 8
\* ids and writing calls of a run in which a bit of the flash flips
NumFlipIds == 2
FlipWrites == 6

\* ------------------------------------------------------------------------
\* Configuration settings and local settings of FlashManager.c
\* ------------------------------------------------------------------------
SECTOR_SIZE == 128
MIN_WRITE_SIZE == 1
MAX_VARIABLE_SIZE == 22
MEM_ADDR_INFO_D == 6144
MEM_ADDR_INFO_C == 6272
MEM_ADDR_INFO_B == 6400
SECTOR1_ADDR == MEM_ADDR_INFO_C
SECTOR2_ADDR == MEM_ADDR_INFO_D
sectorPtr1 == SECTOR1_ADDR
sectorPtr2 == SECTOR2_ADDR
NULL == 0

\* sizeof(flashHeader_t): flag1, flag2, flag3, each MIN_WRITE_SIZE bytes
sizeof_flashHeader_t == 3 * MIN_WRITE_SIZE
\* sizeof(flashData_t): flag, 16-bit id, data[MAX_VARIABLE_SIZE], checksum (packed)
sizeof_flashData_t == 1 + 2 + MAX_VARIABLE_SIZE + 1

HEADER_FLAG_EMPTY == 16777215
HEADER_FLAG_INIT == 11206655
HEADER_FLAG_VALID == 11184895
HEADER_FLAG_INVALID == 11184810
DATA_FLAG_BLANK == 255
DATA_FLAG_VALID == 170

MAX_VARIABLES == (SECTOR_SIZE - sizeof_flashHeader_t) \div sizeof_flashData_t

\* ------------------------------------------------------------------------
\* The flash address space
\* ------------------------------------------------------------------------
\* Info D, Info C and the start of Info B: the furthest byte a record that
\* starts inside a sector can touch is sizeof(flashData_t)-1 past Info C.
MemFirst == MEM_ADDR_INFO_D
MemLast == MEM_ADDR_INFO_B + sizeof_flashData_t - 2
Addr == MemFirst..MemLast

Min(a, b) == IF a < b THEN a ELSE b
Max(a, b) == IF a > b THEN a ELSE b

RECURSIVE BitAnd(_, _)
BitAnd(a, b) ==
    IF a = 0 \/ b = 0 THEN 0
    ELSE (a % 2) * (b % 2) + 2 * BitAnd(a \div 2, b \div 2)

\* a flash cell can only have bits cleared by a write
ProgramByte(old, new) == IF old = 255 THEN new ELSE BitAnd(old, new)

\* start address of the 128-byte segment that holds address a
SegmentOf(a) == a - ((a - MEM_ADDR_INFO_D) % SECTOR_SIZE)

\* ------------------------------------------------------------------------
\* Execution context of one call: the flash, the module's static variables
\* and the bookkeeping of the run (power, injected fault, what was done)
\* ------------------------------------------------------------------------
\*   mem              flash contents, by address
\*   fuel             flash operations (bytes programmed, erases) left before
\*                    the supply fails; -1 = the supply does not fail
\*   fault, faultByte the fault-th flash call of this run misbehaves: an erase
\*                    does nothing, a write leaves byte faultByte unprogrammed
\*   calls            flash calls (FlashWrite8, FlashSegmentErase) made so far
\*   hi               highest sector offset reached by a record write
\*   swaps            SwapSectors calls started
\*   ret              return value of the last function that ran
PowerOn(c) == c.fuel # 0

\* a pointer to data is <<"ram", bytes>> or <<"flash", address>>
RamPtr(bytes) == <<"ram", bytes>>
FlashPtr(a) == <<"flash", a>>
Deref(mem, ptr, i) == IF ptr[1] = "ram" THEN ptr[2][i + 1] ELSE mem[ptr[2] + i]

\* FlashMemSegmentErase with MERAS set in place of ERASE: a mass erase, which
\* erases every segment of the information memory
FlashSegmentErase_Mass(c, flashPtr) ==
    [c EXCEPT
       !.mem = IF PowerOn(c) /\ c.calls + 1 # c.fault THEN [a \in Addr |-> 255] ELSE c.mem,
       !.fuel = IF c.fuel > 0 THEN c.fuel - 1 ELSE c.fuel,
       !.calls = c.calls + 1]

\* FlashMemSegmentErase: erases the whole segment that holds flashPtr
FlashSegmentErase(c, flashPtr) ==
    LET seg == SegmentOf(flashPtr)
        works == PowerOn(c) /\ c.calls + 1 # c.fault
    IN [c EXCEPT
          !.mem = IF works
                  THEN [a \in Addr |-> IF a >= seg /\ a < seg + SECTOR_SIZE THEN 255 ELSE c.mem[a]]
                  ELSE c.mem,
          !.fuel = IF c.fuel > 0 THEN c.fuel - 1 ELSE c.fuel,
          !.calls = c.calls + 1]

\* FlashMemEraseCheck
FlashEraseCheck(c, flashPtr, count) ==
    \A i \in 0..(count - 1) : c.mem[flashPtr + i] = 255

\* the byte loop of FlashMemWrite8, bytes i..n-1: one byte is fetched and
\* programmed at a time, so a source that lies in the flash range being
\* written is read as the loop has left it
RECURSIVE WriteLoop(_, _, _, _, _, _)
WriteLoop(mem, dataPtr, flashPtr, i, n, skip) ==
    IF i >= n THEN mem
    ELSE WriteLoop(IF i = skip THEN mem
                   ELSE [mem EXCEPT ![flashPtr + i] = ProgramByte(@, Deref(mem, dataPtr, i))],
                   dataPtr, flashPtr, i + 1, n, skip)

\* FlashMemWrite8: programs count bytes one after the other; the supply may
\* fail between any two of them
FlashWrite8(c, dataPtr, flashPtr, count) ==
    LET n == IF c.fuel < 0 THEN count ELSE Min(count, c.fuel)
        skip == IF c.calls + 1 = c.fault THEN c.faultByte ELSE -1
    IN [c EXCEPT
          !.mem = WriteLoop(c.mem, dataPtr, flashPtr, 0, n, skip),
          !.fuel = IF c.fuel < 0 THEN c.fuel ELSE c.fuel - n,
          !.calls = c.calls + 1]

\* ------------------------------------------------------------------------
\* Local functions of FlashManager.c
\* ------------------------------------------------------------------------
\* the status EraseSector returns, c being the context after the erase
EraseSector_Check(c, sectorPtr) ==
    [c EXCEPT !.ret = FlashEraseCheck(c, sectorPtr, SECTOR_SIZE)]

EraseSector(c, sectorPtr) ==
    EraseSector_Check(FlashSegmentErase(c, sectorPtr), sectorPtr)

RECURSIVE GetNextFreeOffsetFrom(_, _, _)
GetNextFreeOffsetFrom(mem, sectorPtr, off) ==
    IF mem[sectorPtr + off] = DATA_FLAG_BLANK THEN off
    ELSE IF off + sizeof_flashData_t >= SECTOR_SIZE THEN SECTOR_SIZE
    ELSE GetNextFreeOffsetFrom(mem, sectorPtr, off + sizeof_flashData_t)

GetNextFreeOffset(mem, sectorPtr) ==
    GetNextFreeOffsetFrom(mem, sectorPtr, sizeof_flashHeader_t)

\* fields of the flashData_t at address a (the MSP430 is little-endian)
RecFlag(mem, a) == mem[a]
RecId(mem, a) == mem[a + 1] + 256 * mem[a + 2]
RecData(mem, a) == [i \in 1..MAX_VARIABLE_SIZE |-> mem[a + 2 + i]]
RecChecksum(mem, a) == mem[a + 3 + MAX_VARIABLE_SIZE]

\* sum of the first n bytes of s
RECURSIVE SumBytes(_, _)
SumBytes(s, n) == IF n = 0 THEN 0 ELSE s[n] + SumBytes(s, n - 1)

\* Checksum with the result of 0x100 - checksum not cut to eight bits
Checksum_NotCut(id, data) ==
    256 - (((id % 256) + ((id \div 256) % 256) + SumBytes(data, MAX_VARIABLE_SIZE)) % 256)

\* Checksum over the data alone, the two bytes of the id left out
Checksum_DataOnly(id, data) ==
    (256 - (SumBytes(data, MAX_VARIABLE_SIZE) % 256)) % 256

\* 8-bit two's complement checksum of the id and the data
Checksum(id, data) ==
    LET sum == ((id % 256) + ((id \div 256) % 256) + SumBytes(data, MAX_VARIABLE_SIZE)) % 256
    IN (256 - sum) % 256

IsVariableRecordValid(mem, a) ==
    /\ RecFlag(mem, a) = DATA_FLAG_VALID
    /\ RecChecksum(mem, a) = Checksum(RecId(mem, a), RecData(mem, a))

\* one pass of the while loop of ConstructLookupTable, varRec at offset off
RECURSIVE ConstructLoop(_, _, _, _, _)
ConstructLoop(mem, sectorPtr, off, num, table) ==
    IF mem[sectorPtr + off] = DATA_FLAG_BLANK THEN [num |-> num, table |-> table]
    ELSE
      LET a == sectorPtr + off
          valid == IsVariableRecordValid(mem, a)
          id == RecId(mem, a)
          hits == {i \in 0..(num - 1) : table[i].id = id}
          first == CHOOSE i \in hits : \A j \in hits : i <= j
          table2 == IF ~valid THEN table
                    ELSE IF hits # {} THEN [table EXCEPT ![first].offset = off]
                    ELSE [table EXCEPT ![num] = [id |-> id, offset |-> off]]
          num2 == IF valid /\ hits = {} THEN num + 1 ELSE num
      IN IF off + sizeof_flashData_t >= SECTOR_SIZE \/ num2 = MAX_VARIABLES
         THEN [num |-> num2, table |-> table2]
         ELSE ConstructLoop(mem, sectorPtr, off + sizeof_flashData_t, num2, table2)

\* ConstructLookupTable with the loop ended at validFreeOffset: the records
\* from there on are taken as blank
ConstructLookupTable_ToFree(c) ==
    LET r == ConstructLoop([a \in Addr |->
                              IF a >= c.validSectorPtr + c.validFreeOffset THEN 255
                              ELSE c.mem[a]],
                           c.validSectorPtr, sizeof_flashHeader_t, 0, c.mLookupTable)
    IN [c EXCEPT !.mNumVariables = r.num, !.mLookupTable = r.table]

\* ConstructLookupTable with the loop ended at the first record that fails
\* IsVariableRecordValid: the flash from there on is taken as blank
ConstructLookupTable_StopAtInvalid(c) ==
    LET bad == {o \in {sizeof_flashHeader_t + k * sizeof_flashData_t : k \in 0..MAX_VARIABLES} :
                  ~IsVariableRecordValid(c.mem, c.validSectorPtr + o)}
        r == ConstructLoop([a \in Addr |->
                              IF \E o \in bad : a >= c.validSectorPtr + o THEN 255
                              ELSE c.mem[a]],
                           c.validSectorPtr, sizeof_flashHeader_t, 0, c.mLookupTable)
    IN [c EXCEPT !.mNumVariables = r.num, !.mLookupTable = r.table]

\* the while loop of ConstructLookupTable without the search of the table:
\* every valid record gets a new entry
RECURSIVE ConstructLoop_NoSearch(_, _, _, _, _)
ConstructLoop_NoSearch(mem, sectorPtr, off, num, table) ==
    IF mem[sectorPtr + off] = DATA_FLAG_BLANK THEN [num |-> num, table |-> table]
    ELSE
      LET a == sectorPtr + off
          valid == IsVariableRecordValid(mem, a)
          table2 == IF ~valid THEN table
                    ELSE [table EXCEPT ![num] = [id |-> RecId(mem, a), offset |-> off]]
          num2 == IF valid THEN num + 1 ELSE num
      IN IF off + sizeof_flashData_t >= SECTOR_SIZE \/ num2 = MAX_VARIABLES
         THEN [num |-> num2, table |-> table2]
         ELSE ConstructLoop_NoSearch(mem, sectorPtr, off + sizeof_flashData_t, num2, table2)

ConstructLookupTable_NoSearch(c) ==
    LET r == ConstructLoop_NoSearch(c.mem, c.validSectorPtr, sizeof_flashHeader_t, 0,
                                    c.mLookupTable)
    IN [c EXCEPT !.mNumVariables = r.num, !.mLookupTable = r.table]

ConstructLookupTable(c) ==
    LET r == ConstructLoop(c.mem, c.validSectorPtr, sizeof_flashHeader_t, 0, c.mLookupTable)
    IN [c EXCEPT !.mNumVariables = r.num, !.mLookupTable = r.table]

\* the read-back comparison of SetVariableRecord, c being the context after
\* the write
SetVariableRecord_Verify(c, varRec, sectorPtr, offset) ==
    [c EXCEPT
       !.ret = \A i \in 0..(sizeof_flashData_t - 1) :
                   c.mem[sectorPtr + offset + i] = Deref(c.mem, varRec, i),
       !.hi = Max(c.hi, offset + sizeof_flashData_t)]

SetVariableRecord(c, varRec, sectorPtr, offset) ==
    SetVariableRecord_Verify(
        FlashWrite8(c, varRec, sectorPtr + offset, sizeof_flashData_t),
        varRec, sectorPtr, offset)

\* the three header bytes of a flags value, flag1 first
FlagBytes(flags) ==
    <<(flags \div 65536) % 256, (flags \div 256) % 256, flags % 256>>

\* the read-back comparison of SetSectorFlags, c being the context after the
\* write
SetSectorFlags_Verify(c, sectorPtr, secRec) ==
    [c EXCEPT
       !.ret = \A i \in 0..(sizeof_flashHeader_t - 1) :
                   c.mem[sectorPtr + i] = secRec[i + 1]]

\* the pattern has no bit set that the header in flash has cleared
OnlyClears(mem, sectorPtr, secRec) ==
    \A i \in 0..(sizeof_flashHeader_t - 1) :
        BitAnd(mem[sectorPtr + i], secRec[i + 1]) = secRec[i + 1]

\* the context notes a call whose pattern sets a bit that the header in flash
\* has cleared
SetSectorFlags_Note(c, sectorPtr, secRec) ==
    [c EXCEPT !.back = c.back \/ ~OnlyClears(c.mem, sectorPtr, secRec)]

SetSectorFlags(c, sectorPtr, flags) ==
    SetSectorFlags_Verify(
        FlashWrite8(SetSectorFlags_Note(c, sectorPtr, FlagBytes(flags)),
                    RamPtr(FlagBytes(flags)), sectorPtr, sizeof_flashHeader_t),
        sectorPtr, FlagBytes(flags))

\* the copy loop of SwapSectors: entry i of the lookup table goes to tempOffset
\* run the step only when the status so far is true
Then_SetSectorFlags(c, sectorPtr, flags) ==
    IF c.ret THEN SetSectorFlags(c, sectorPtr, flags) ELSE c
Then_EraseSector(c, sectorPtr) ==
    IF c.ret THEN EraseSector(c, sectorPtr) ELSE c

RECURSIVE SwapCopyLoop(_, _, _, _, _)
\* the rest of the copy loop of SwapSectors after entry i was written
SwapCopyNext(c, srcSectorPtr, dstSectorPtr, i, tempOffset) ==
    IF ~c.ret THEN c
    ELSE SwapCopyLoop(c, srcSectorPtr, dstSectorPtr, i + 1,
                      tempOffset + sizeof_flashData_t)

SwapCopyLoop(c, srcSectorPtr, dstSectorPtr, i, tempOffset) ==
    IF i >= c.mNumVariables THEN c
    ELSE SwapCopyNext(
           SetVariableRecord(c, FlashPtr(srcSectorPtr + c.mLookupTable[i].offset),
                             dstSectorPtr, tempOffset),
           srcSectorPtr, dstSectorPtr, i, tempOffset)

\* the steps of SwapSectors, in the order of the code
SwapSectors_Begin(c, dstSectorPtr) ==
    IF c.mem[dstSectorPtr] # 255
    THEN EraseSector([c EXCEPT !.ret = TRUE, !.swaps = c.swaps + 1], dstSectorPtr)
    ELSE [c EXCEPT !.ret = TRUE, !.swaps = c.swaps + 1]

\* every byte of the sector after its header is erased
BlankAfterHeader(mem, sectorPtr) ==
    \A o \in sizeof_flashHeader_t..(SECTOR_SIZE - 1) : mem[sectorPtr + o] = 255

\* the context notes a copy loop that starts on a destination with a
\* programmed byte after its header
SwapSectors_Note(c, dstSectorPtr) ==
    [c EXCEPT !.dirty = c.dirty \/ ~BlankAfterHeader(c.mem, dstSectorPtr)]

SwapSectors_Copy(c, srcSectorPtr, dstSectorPtr) ==
    IF c.ret THEN SwapCopyLoop(SwapSectors_Note(c, dstSectorPtr),
                               srcSectorPtr, dstSectorPtr, 0, sizeof_flashHeader_t)
    ELSE c

\* SwapSectors_End with the status of the steps before it not looked at
SwapSectors_End_Unchecked(c, dstSectorPtr) ==
    ConstructLookupTable(
      [c EXCEPT !.validSectorPtr = dstSectorPtr,
                !.validFreeOffset = GetNextFreeOffset(c.mem, dstSectorPtr),
                !.swapFailed = ~c.ret])

\* the context notes a SwapSectors that returns false
SwapSectors_End(c, dstSectorPtr) ==
    IF c.ret
    THEN ConstructLookupTable(
           [c EXCEPT !.validSectorPtr = dstSectorPtr,
                     !.validFreeOffset = GetNextFreeOffset(c.mem, dstSectorPtr)])
    ELSE [c EXCEPT !.swapFailed = TRUE]

\* SwapSectors with the destination marked Valid before the source is marked
\* Invalid
SwapSectors_ValidFirst(c, srcSectorPtr, dstSectorPtr) ==
    SwapSectors_End(
      Then_EraseSector(
        Then_SetSectorFlags(
          Then_SetSectorFlags(
            SwapSectors_Copy(
              Then_SetSectorFlags(SwapSectors_Begin(c, dstSectorPtr),
                                  dstSectorPtr, HEADER_FLAG_INIT),
              srcSectorPtr, dstSectorPtr),
            dstSectorPtr, HEADER_FLAG_VALID),
          srcSectorPtr, HEADER_FLAG_INVALID),
        srcSectorPtr),
      dstSectorPtr)

SwapSectors(c, srcSectorPtr, dstSectorPtr) ==
    SwapSectors_End(
      Then_EraseSector(
        Then_SetSectorFlags(
          Then_SetSectorFlags(
            SwapSectors_Copy(
              Then_SetSectorFlags(SwapSectors_Begin(c, dstSectorPtr),
                                  dstSectorPtr, HEADER_FLAG_INIT),
              srcSectorPtr, dstSectorPtr),
            srcSectorPtr, HEADER_FLAG_INVALID),
          dstSectorPtr, HEADER_FLAG_VALID),
        srcSectorPtr),
      dstSectorPtr)

\* the last matching entry wins (the loop does not stop at the first hit)
GetVariableOffset(c, variableId) ==
    LET hits == {i \in 0..(c.mNumVariables - 1) : c.mLookupTable[i].id = variableId}
        last == CHOOSE i \in hits : \A j \in hits : j <= i
    IN IF hits = {} THEN [status |-> FALSE, offset |-> 0]
       ELSE [status |-> TRUE, offset |-> c.mLookupTable[last].offset]

\* ------------------------------------------------------------------------
\* Public functions
\* ------------------------------------------------------------------------
SectorFlag(mem, sectorPtr) ==
    mem[sectorPtr] * 65536 + mem[sectorPtr + 1] * 256 + mem[sectorPtr + 2]

\* Recognized without the comparison with HEADER_FLAG_VALID
Recognized_NoValid(flag) ==
    flag \in {HEADER_FLAG_EMPTY, HEADER_FLAG_INIT, HEADER_FLAG_INVALID}

Recognized(flag) ==
    flag \in {HEADER_FLAG_EMPTY, HEADER_FLAG_INIT, HEADER_FLAG_VALID, HEADER_FLAG_INVALID}

\* "use sector p" with the free offset given / found by scanning
UseSector(c, sectorPtr, offset) ==
    [c EXCEPT !.validSectorPtr = sectorPtr, !.validFreeOffset = offset]
UseSectorScan(c, sectorPtr) ==
    UseSector(c, sectorPtr, GetNextFreeOffset(c.mem, sectorPtr))
Then_SwapSectors(c, srcSectorPtr, dstSectorPtr) ==
    IF c.ret THEN SwapSectors(c, srcSectorPtr, dstSectorPtr) ELSE c

\* SetSectorFlags when the status so far is true, its result dropped
Unchecked_SetSectorFlags(c, sectorPtr, flags) ==
    IF c.ret THEN [SetSectorFlags(c, sectorPtr, flags) EXCEPT !.ret = TRUE] ELSE c

\* the switch on (sector1Flag, sector2Flag)
FlashManInitSwitch(c, sector1Flag, sector2Flag) ==
    LET E == HEADER_FLAG_EMPTY
        I == HEADER_FLAG_INIT
        V == HEADER_FLAG_VALID
        X == HEADER_FLAG_INVALID
        p1 == sectorPtr1
        p2 == sectorPtr2
        first == sizeof_flashHeader_t
    IN CASE sector1Flag = E /\ sector2Flag = E ->
              UseSector(SetSectorFlags(c, p1, V), p1, first)
         [] sector1Flag = E /\ sector2Flag = I ->
              UseSector(SetSectorFlags(c, p2, V), p2, first)
         [] sector1Flag = E /\ sector2Flag = V ->
              UseSectorScan(c, p2)
         [] sector1Flag = E /\ sector2Flag = X ->
              UseSectorScan(SwapSectors(c, p2, p1), p1)
         [] sector1Flag = I /\ sector2Flag = E ->
              UseSector(SetSectorFlags(c, p1, V), p1, first)
         [] sector1Flag = I /\ sector2Flag = I ->
              UseSector(Then_SetSectorFlags(EraseSector(c, p2), p1, V), p1, first)
         [] sector1Flag = I /\ sector2Flag = V ->
              UseSectorScan(Then_SwapSectors(EraseSector(c, p1), p2, p1), p1)
         [] sector1Flag = I /\ sector2Flag = X ->
              UseSector(Then_SetSectorFlags(EraseSector(c, p2), p1, V), p1, first)
         [] sector1Flag = V /\ sector2Flag = E ->
              UseSectorScan(c, p1)
         [] sector1Flag = V /\ sector2Flag = I ->
              UseSectorScan(Then_SwapSectors(EraseSector(c, p2), p1, p2), p2)
         [] sector1Flag = V /\ sector2Flag = V ->
              UseSectorScan(EraseSector(c, p2), p1)
         [] sector1Flag = V /\ sector2Flag = X ->
              UseSectorScan(EraseSector(c, p2), p1)
         [] sector1Flag = X /\ sector2Flag = E ->
              UseSectorScan(SwapSectors(c, p1, p2), p2)
         [] sector1Flag = X /\ sector2Flag = I ->
              \* the result of this SetSectorFlags is not assigned to status
              UseSector(Unchecked_SetSectorFlags(EraseSector(c, p1), p2, V), p2, first)
         [] sector1Flag = X /\ sector2Flag = V ->
              UseSectorScan(EraseSector(c, p1), p2)
         [] sector1Flag = X /\ sector2Flag = X ->
              UseSector(Then_SetSectorFlags(Then_EraseSector(EraseSector(c, p1), p2), p1, V),
                        p1, first)

\* InitFlag with flag1[0], flag2[0] and flag3[0] read as if MIN_WRITE_SIZE
\* were 2 (each field of flashHeader_t two bytes long)
InitFlag_NotPacked(mem, sectorPtr) ==
    IF Recognized(mem[sectorPtr] * 65536 + mem[sectorPtr + 2] * 256 + mem[sectorPtr + 4])
    THEN mem[sectorPtr] * 65536 + mem[sectorPtr + 2] * 256 + mem[sectorPtr + 4]
    ELSE HEADER_FLAG_EMPTY

\* flags that are none of the four known values: the sector is erased (the
\* result is not checked) and taken as empty
InitFlag(mem, sectorPtr) ==
    IF Recognized(SectorFlag(mem, sectorPtr)) THEN SectorFlag(mem, sectorPtr)
    ELSE HEADER_FLAG_EMPTY
InitErase(c, sectorPtr) ==
    IF Recognized(SectorFlag(c.mem, sectorPtr)) THEN c ELSE EraseSector(c, sectorPtr)

FlashManInit_Switch(c, sector1Flag, sector2Flag) ==
    ConstructLookupTable(FlashManInitSwitch([c EXCEPT !.ret = TRUE], sector1Flag, sector2Flag))

FlashManInit(c) ==
    FlashManInit_Switch(InitErase(InitErase(c, sectorPtr1), sectorPtr2),
                        InitFlag(c.mem, sectorPtr1), InitFlag(c.mem, sectorPtr2))

\* FlashManGetVariable without the check of size: size bytes are copied from
\* data->data, the bytes past data[MAX_VARIABLE_SIZE - 1] being those that
\* follow it in flash
FlashManGetVariable_NoSizeCheck(c, id, value, size) ==
    LET found == GetVariableOffset(c, id)
    IN [status |-> found.status,
        value |-> IF found.status
                  THEN [i \in 1..Len(value) |->
                          IF i <= size THEN c.mem[c.validSectorPtr + found.offset + 2 + i]
                          ELSE value[i]]
                  ELSE value]

\* value is the caller's buffer; the result carries it back
FlashManGetVariable(c, id, value, size) ==
    LET found == IF size > MAX_VARIABLE_SIZE THEN [status |-> FALSE, offset |-> 0]
                 ELSE GetVariableOffset(c, id)
        data == RecData(c.mem, c.validSectorPtr + found.offset)
    IN [status |-> found.status,
        value |-> IF found.status
                  THEN [i \in 1..Len(value) |-> IF i <= size THEN data[i] ELSE value[i]]
                  ELSE value]

\* AssembleRecord with the checksum left as the plain byte sum
AssembleRecord_NoComplement(id, value, size) ==
    LET data == [i \in 1..MAX_VARIABLE_SIZE |-> IF i <= size THEN value[i] ELSE 0]
    IN <<DATA_FLAG_VALID, id % 256, (id \div 256) % 256>> \o data
         \o <<(256 - Checksum(id, data)) % 256>>

\* the flashData_t assembled by FlashManSetVariable, as bytes
AssembleRecord(id, value, size) ==
    LET data == [i \in 1..MAX_VARIABLE_SIZE |-> IF i <= size THEN value[i] ELSE 0]
    IN <<DATA_FLAG_VALID, id % 256, (id \div 256) % 256>> \o data \o <<Checksum(id, data)>>

\* what oldData holds before FlashManGetVariable fills it is indeterminate;
\* only the bytes that the call filled are compared
Preexisting(old, value, size) ==
    old.status /\ \A i \in 1..size : value[i] = old.value[i]

\* "if sector is full": the swap, then the check for room in the new sector
SetVariable_Full(c) ==
    IF c.ret /\ c.validFreeOffset >= SECTOR_SIZE THEN [c EXCEPT !.ret = FALSE] ELSE c

SetVariable_MakeRoom(c) ==
    IF c.validFreeOffset >= SECTOR_SIZE
    THEN IF c.validSectorPtr = sectorPtr1
         THEN SetVariable_Full(SwapSectors(c, sectorPtr1, sectorPtr2))
         ELSE IF c.validSectorPtr = sectorPtr2
         THEN SetVariable_Full(SwapSectors(c, sectorPtr2, sectorPtr1))
         ELSE SetVariable_Full(c)
    ELSE c

\* SetVariable_Stored with the result of SetVariableRecord not looked at
SetVariable_Stored_Unchecked(c) ==
    ConstructLookupTable(
      [c EXCEPT !.validFreeOffset = c.validFreeOffset + sizeof_flashData_t])

\* after SetVariableRecord: advance the free offset and rebuild the table
SetVariable_Stored(c) ==
    IF c.ret
    THEN ConstructLookupTable(
           [c EXCEPT !.validFreeOffset = c.validFreeOffset + sizeof_flashData_t])
    ELSE c

\* "if (status == true)": assemble the record and store it
SetVariable_Store(c, flashData) ==
    IF ~c.ret THEN c
    ELSE SetVariable_Stored(
           SetVariableRecord([c EXCEPT !.appendAt = c.validFreeOffset,
                                       !.appendIn = c.validSectorPtr,
                                       !.appendNum = c.mNumVariables,
                                       !.appendTable = c.mLookupTable],
                             RamPtr(flashData), c.validSectorPtr, c.validFreeOffset))

\* FlashManSetVariable without the check of size
FlashManSetVariable_NoSizeCheck(c, id, value, size) ==
    IF Preexisting(FlashManGetVariable(c, id, [i \in 1..MAX_VARIABLE_SIZE |-> 0], size),
                   value, size)
    THEN [c EXCEPT !.ret = TRUE]
    ELSE SetVariable_Store(
           SetVariable_MakeRoom([c EXCEPT !.ret = TRUE, !.freeAtCheck = c.validFreeOffset]),
           AssembleRecord(id, value, size))

FlashManSetVariable(c, id, value, size) ==
    IF size > MAX_VARIABLE_SIZE THEN [c EXCEPT !.ret = FALSE]
    ELSE IF Preexisting(FlashManGetVariable(c, id, [i \in 1..MAX_VARIABLE_SIZE |-> 0], size),
                        value, size)
    THEN [c EXCEPT !.ret = TRUE]
    ELSE SetVariable_Store(
           SetVariable_MakeRoom([c EXCEPT !.ret = TRUE, !.freeAtCheck = c.validFreeOffset]),
           AssembleRecord(id, value, size))

FlashManGetMaxVariables == MAX_VARIABLES

\* ------------------------------------------------------------------------
\* State
\* ------------------------------------------------------------------------
VARIABLES
    mem,              \* the flash: Info D (sectorArray2), Info C (sectorArray1), Info B
    mNumVariables,    \* number of entries in the lookup table
    mLookupTable,     \* the variable lookup table
    validFreeOffset,  \* the next free offset in the valid sector
    validSectorPtr,   \* pointer to valid sector
    phase,            \* "boot": after reset, FlashManInit not yet run; "ready"
    last,             \* the last call: its arguments, result, and what it did
    committed,        \* per id, the value of the last FlashManSetVariable that returned true
    used,             \* highest id handed to FlashManSetVariable so far
    writes,           \* FlashManSetVariable calls so far that reached flash
    limit,            \* how many such calls the run may make
    upsets            \* power losses and flash faults so far

vars == <<mem, mNumVariables, mLookupTable, validFreeOffset, validSectorPtr,
          phase, last, committed, used, writes, limit, upsets>>

statics == <<mem, mNumVariables, mLookupTable, validFreeOffset, validSectorPtr>>

Ids == 1..NumIds
Value(n) == [i \in 1..n |-> i]
\* the payloads of the application: a one-byte value, and a two-byte value
\* that starts with the same byte
Payloads == {Value(1), Value(2)}
\* what the caller's buffer holds before FlashManGetVariable
Buffer(size) == [i \in 1..size |-> 238]

NoTable == [i \in 0..(MAX_VARIABLES - 1) |-> [id |-> 0, offset |-> 0]]

\* what is recorded of a call:
\*   op, id, value, ret, out   the function, its arguments and results
\*   calls, hi, swaps          as in the context
\*   freeAtCheck               validFreeOffset when "if sector is full" was evaluated
\*   appendAt, appendIn, appendNum, appendTable
\*                             validFreeOffset, validSectorPtr, mNumVariables and
\*                             mLookupTable when the record was handed to
\*                             SetVariableRecord
\*   found                     for FlashManInit: the header flags of sector 1
\*                             and sector 2 as the call found them
\*   run                       for FlashManInit: 1 for the run after reset, 2
\*                             for a run that follows it, ...
NoCall ==
    [op |-> "none", id |-> 0, value |-> <<>>, ret |-> FALSE, out |-> <<>>,
     calls |-> 0, hi |-> 0, swaps |-> 0, freeAtCheck |-> -1, appendAt |-> -1,
     appendIn |-> NULL, appendNum |-> 0, appendTable |-> NoTable,
     found |-> <<>>, run |-> 0, ptr |-> NULL, back |-> FALSE, dirty |-> FALSE,
     swapFailed |-> FALSE]

\* the context of a call that starts in the current state
Ctx(fuel, fault, faultByte) ==
    [mem |-> mem, fuel |-> fuel, fault |-> fault, faultByte |-> faultByte,
     calls |-> 0, hi |-> 0, swaps |-> 0, ret |-> TRUE, back |-> FALSE, dirty |-> FALSE, swapFailed |-> FALSE,
     freeAtCheck |-> -1, appendAt |-> -1,
     appendIn |-> NULL, appendNum |-> 0, appendTable |-> NoTable,
     mNumVariables |-> mNumVariables, mLookupTable |-> mLookupTable,
     validFreeOffset |-> validFreeOffset, validSectorPtr |-> validSectorPtr]

Called(op, id, value, c, out) ==
    [op |-> op, id |-> id, value |-> value, ret |-> c.ret, out |-> out,
     calls |-> c.calls, hi |-> c.hi, swaps |-> c.swaps,
     freeAtCheck |-> c.freeAtCheck, appendAt |-> c.appendAt,
     appendIn |-> c.appendIn, appendNum |-> c.appendNum, appendTable |-> c.appendTable,
     found |-> <<>>, run |-> 0, ptr |-> c.validSectorPtr,
     back |-> c.back, dirty |-> c.dirty, swapFailed |-> c.swapFailed]

\* the header flags of the two sectors, as FlashManInit compiles them
Found == <<SectorFlag(mem, sectorPtr1), SectorFlag(mem, sectorPtr2)>>

\* the statics take the values the call left
Statics(c) ==
    /\ mem' = c.mem
    /\ mNumVariables' = c.mNumVariables
    /\ mLookupTable' = c.mLookupTable
    /\ validFreeOffset' = c.validFreeOffset
    /\ validSectorPtr' = c.validSectorPtr

\* blank flash; statics zero-initialised by the C startup code
Start(n) ==
    /\ mem = [a \in Addr |-> 255]
    /\ mNumVariables = 0
    /\ mLookupTable = NoTable
    /\ validFreeOffset = 0
    /\ validSectorPtr = NULL
    /\ phase = "boot"
    /\ last = NoCall
    /\ committed = [id \in Ids |-> <<>>]
    /\ used = 0
    /\ writes = 0
    /\ limit = n
    /\ upsets = 0

Init == Start(MaxWrites)

\* the application calls FlashManInit after reset
Boot ==
    /\ phase = "boot"
    /\ \E c \in {FlashManInit(Ctx(-1, 0, 0))} :
          /\ Statics(c)
          /\ phase' = IF c.ret THEN "ready" ELSE "boot"
          /\ last' = [Called("init", 0, <<>>, c, <<>>) EXCEPT !.found = Found, !.run = 1]
    /\ UNCHANGED <<committed, used, writes, limit, upsets>>

\* the application stores a variable; ids are taken into use in increasing order
SetVariable(id, value) ==
    /\ phase = "ready"
    /\ writes < limit
    /\ id <= used + 1
    /\ \E c \in {FlashManSetVariable(Ctx(-1, 0, 0), id, value, Len(value))} :
          /\ Statics(c)
          /\ last' = Called("set", id, value, c, <<>>)
          /\ committed' = IF c.ret THEN [committed EXCEPT ![id] = value] ELSE committed
          /\ writes' = IF c.calls > 0 THEN writes + 1 ELSE writes
    /\ used' = Max(used, id)
    /\ UNCHANGED <<phase, limit, upsets>>

Next ==
    \/ Boot
    \/ \E id \in Ids, value \in Payloads : SetVariable(id, value)

Spec == Init /\ [][Next]_vars

\* ------------------------------------------------------------------------
\* The interface with every kind of argument: oversize values, reads
\* ------------------------------------------------------------------------
ApiIds == 1..NumApiIds
\* a value one byte longer than a record holds
Oversize == Value(MAX_VARIABLE_SIZE + 1)
\* one-byte values with no set bit in common
Updates == {<<1>>, <<2>>}
ApiPayloads == Updates \cup {Oversize}
ApiSizes == {1, 2, MAX_VARIABLE_SIZE + 1}

\* the application reads a variable into a buffer of size bytes
GetVariable(id, size) ==
    /\ phase = "ready"
    /\ \E c \in {Ctx(-1, 0, 0)} :
        \E r \in {FlashManGetVariable(c, id, Buffer(size), size)} :
          /\ Statics(c)
          /\ last' = [NoCall EXCEPT !.op = "get", !.id = id, !.ret = r.status,
                                    !.out = r.value, !.calls = c.calls]
    /\ UNCHANGED <<phase, committed, used, writes, limit, upsets>>

InitApi == Start(ApiWrites)

NextApi ==
    \/ Boot
    \/ \E id \in ApiIds, value \in ApiPayloads : SetVariable(id, value)
    \/ \E id \in ApiIds, size \in ApiSizes : GetVariable(id, size)

SpecApi == InitApi /\ [][NextApi]_vars

\* ------------------------------------------------------------------------
\* Flash that fails: one flash call of a FlashManSetVariable misbehaves
\* ------------------------------------------------------------------------
FaultIds == 1..NumFaultIds
FaultCalls == 1..MaxFaultCall
\* the byte of a write that stays unprogrammed: the first, one in the
\* middle, the last of a header, the last of a record
FaultBytes == {0, 1, sizeof_flashHeader_t - 1, sizeof_flashData_t - 1}

SetVariableFaulty(id, value, fault, faultByte) ==
    /\ phase = "ready"
    /\ writes < limit
    /\ upsets < MaxUpsets
    /\ id <= used + 1
    /\ \E c \in {FlashManSetVariable(Ctx(-1, fault, faultByte), id, value, Len(value))} :
          /\ c.calls >= fault
          /\ Statics(c)
          /\ last' = Called("set", id, value, c, <<>>)
          /\ committed' = IF c.ret THEN [committed EXCEPT ![id] = value] ELSE committed
    /\ writes' = writes + 1
    /\ upsets' = upsets + 1
    /\ used' = Max(used, id)
    /\ UNCHANGED <<phase, limit>>

InitFault == Start(FaultWrites)

NextFault ==
    \/ Boot
    \/ \E id \in FaultIds, value \in Updates : SetVariable(id, value)
    \/ \E id \in FaultIds, value \in Updates, fault \in FaultCalls, faultByte \in FaultBytes :
          SetVariableFaulty(id, value, fault, faultByte)

SpecFault == InitFault /\ [][NextFault]_vars

\* ------------------------------------------------------------------------
\* Power loss: the supply fails during a FlashManSetVariable, after any
\* number of bytes programmed and sectors erased; the RAM is lost
\* ------------------------------------------------------------------------
CrashIds == 1..NumCrashIds
Fuels == 0..MaxFuel

PowerLoss(id, value, fuel) ==
    /\ phase = "ready"
    /\ writes < limit
    /\ upsets < MaxUpsets
    /\ id <= used + 1
    /\ \E c \in {FlashManSetVariable(Ctx(fuel, 0, 0), id, value, Len(value))} :
          /\ c.fuel = 0
          /\ mem' = c.mem
          /\ last' = [NoCall EXCEPT !.op = "reset", !.swaps = c.swaps,
                                    !.ptr = c.validSectorPtr]
    /\ mNumVariables' = 0
    /\ mLookupTable' = NoTable
    /\ validFreeOffset' = 0
    /\ validSectorPtr' = NULL
    /\ phase' = "boot"
    /\ writes' = writes + 1
    /\ upsets' = upsets + 1
    /\ used' = Max(used, id)
    /\ UNCHANGED <<committed, limit>>

InitCrash == Start(CrashWrites)

NextCrash ==
    \/ Boot
    \/ \E id \in CrashIds, value \in Updates : SetVariable(id, value)
    \/ \E id \in CrashIds, value \in Updates, fuel \in Fuels : PowerLoss(id, value, fuel)

SpecCrash == InitCrash /\ [][NextCrash]_vars

\* ------------------------------------------------------------------------
\* FlashManInit on any flash: the two sectors hold any header and records
\* ------------------------------------------------------------------------
\* header values that are none of the four flags: all bits programmed (what
\* the tail of a record written past the end of sector 2 leaves in the
\* header of sector 1), and INIT with the third byte programmed
HEADER_ZERO == 0
HEADER_OTHER == 11206570
HeaderValues ==
    {HEADER_FLAG_EMPTY, HEADER_FLAG_INIT, HEADER_FLAG_VALID, HEADER_FLAG_INVALID,
     HEADER_ZERO, HEADER_OTHER}

Rec(id, value) == AssembleRecord(id, value, Len(value))
\* what a sector holds after its header: nothing; two variables; two
\* variables, the first updated; as many variables as the table holds
Contents ==
    {<<>>,
     <<Rec(1, <<1>>), Rec(2, <<1>>)>>,
     <<Rec(1, <<1>>), Rec(2, <<1>>), Rec(1, <<2>>)>>,
     <<Rec(1, <<1>>), Rec(2, <<1>>), Rec(3, <<2>>), Rec(4, <<2>>)>>}

\* byte at offset o of a sector with header flags and the records recs
SectorByte(flags, recs, o) ==
    IF o < sizeof_flashHeader_t THEN FlagBytes(flags)[o + 1]
    ELSE IF (o - sizeof_flashHeader_t) \div sizeof_flashData_t < Len(recs)
    THEN recs[((o - sizeof_flashHeader_t) \div sizeof_flashData_t) + 1]
             [((o - sizeof_flashHeader_t) % sizeof_flashData_t) + 1]
    ELSE 255

Image(flags1, recs1, flags2, recs2) ==
    [a \in Addr |->
        IF a >= sectorPtr1 /\ a < sectorPtr1 + SECTOR_SIZE
        THEN SectorByte(flags1, recs1, a - sectorPtr1)
        ELSE IF a >= sectorPtr2 /\ a < sectorPtr2 + SECTOR_SIZE
        THEN SectorByte(flags2, recs2, a - sectorPtr2)
        ELSE 255]

\* the context of a call made after reset on the flash m
ResetCtx(m) ==
    [mem |-> m, fuel |-> -1, fault |-> 0, faultByte |-> 0,
     calls |-> 0, hi |-> 0, swaps |-> 0, ret |-> TRUE, back |-> FALSE, dirty |-> FALSE, swapFailed |-> FALSE,
     freeAtCheck |-> -1, appendAt |-> -1,
     appendIn |-> NULL, appendNum |-> 0, appendTable |-> NoTable,
     mNumVariables |-> 0, mLookupTable |-> NoTable,
     validFreeOffset |-> 0, validSectorPtr |-> NULL]

\* the flash after FlashManInit on blank flash and the sets of seq, in order
RECURSIVE RunSets(_, _, _)
RunSets(c, seq, i) ==
    IF i > Len(seq) \/ ~c.ret THEN c
    ELSE RunSets(FlashManSetVariable(c, seq[i][1], seq[i][2], Len(seq[i][2])), seq, i + 1)

\* three variables stored and updated until sector 1 is full, swapped to
\* sector 2, and updated until the record at offset 107 of sector 2 is
\* written: its last five bytes lie in sector 1
OverflowSets ==
    <<<<1, <<1>>>>, <<2, <<1>>>>, <<3, <<1>>>>, <<1, <<2>>>>, <<2, <<2>>>>,
      <<3, <<2>>>>, <<1, <<1>>>>>>
OverflowImage == RunSets(FlashManInit(ResetCtx([a \in Addr |-> 255])), OverflowSets, 1).mem

\* a sector whose header reads Empty has been erased and holds no record:
\* the header is the first thing programmed after an erase
Sectors ==
    {s \in HeaderValues \X Contents : s[1] = HEADER_FLAG_EMPTY => s[2] = <<>>}

Images ==
    {Image(s1[1], s1[2], s2[1], s2[2]) : s1 \in Sectors, s2 \in Sectors}
      \cup {OverflowImage}

InitInit ==
    /\ mem \in Images
    /\ mNumVariables = 0
    /\ mLookupTable = NoTable
    /\ validFreeOffset = 0
    /\ validSectorPtr = NULL
    /\ phase = "boot"
    /\ last = NoCall
    /\ committed = [id \in Ids |-> <<>>]
    /\ used = 0
    /\ writes = 0
    /\ limit = 0
    /\ upsets = 0

\* the application calls FlashManInit again, without a reset in between
Reinit ==
    /\ phase = "ready"
    /\ last.op = "init"
    /\ last.ret
    /\ last.run < MaxInits
    /\ \E c \in {FlashManInit(Ctx(-1, 0, 0))} :
          /\ Statics(c)
          /\ phase' = IF c.ret THEN "ready" ELSE "boot"
          /\ last' = [Called("init", 0, <<>>, c, <<>>) EXCEPT
                        !.found = Found, !.run = last.run + 1]
    /\ UNCHANGED <<committed, used, writes, limit, upsets>>

NextInit ==
    \/ Boot
    \/ Reinit

SpecInit == InitInit /\ [][NextInit]_vars

\* ------------------------------------------------------------------------
\* Long service: a few variables updated until both sectors have been filled
\* ------------------------------------------------------------------------
WearIds == 1..NumWearIds

InitWear == Start(WearWrites)

NextWear ==
    \/ Boot
    \/ \E id \in WearIds, value \in Updates : SetVariable(id, value)

SpecWear == InitWear /\ [][NextWear]_vars

\* ------------------------------------------------------------------------
\* Wear with a long value: a value of 19 bytes whose last byte is 0xFF, so
\* that a record at the last offset of sector 2 puts 0xFF in the first byte
\* of sector 1
\* ------------------------------------------------------------------------
Wide == [i \in 1..19 |-> IF i = 19 THEN 255 ELSE 0]
NextWide ==
    \/ Boot
    \/ \E id \in WearIds, value \in {<<1>>, Wide} : SetVariable(id, value)

SpecWide == InitWear /\ [][NextWide]_vars

\* ------------------------------------------------------------------------
\* Wear with a full-length value whose bytes 18, 19 and 20 are 0xFF, so that
\* a record at the last offset of sector 2 leaves the header of sector 1
\* erased and programs the two bytes after it
\* ------------------------------------------------------------------------
Long == [i \in 1..MAX_VARIABLE_SIZE |-> IF i \in {19, 20, 21} THEN 255 ELSE 0]
NextLong ==
    \/ Boot
    \/ \E id \in WearIds, value \in {<<1>>, Long} : SetVariable(id, value)

SpecLong == InitWear /\ [][NextLong]_vars

\* ------------------------------------------------------------------------
\* Wear with a full-length value whose bytes 18, 19 and 20 are those of
\* HEADER_FLAG_VALID, so that a record at the last offset of sector 2
\* programs that pattern into the header of sector 1
\* ------------------------------------------------------------------------
Forged ==
    [i \in 1..MAX_VARIABLE_SIZE |->
       IF i \in {19, 20, 21} THEN FlagBytes(HEADER_FLAG_VALID)[i - 18] ELSE 0]
NextForged ==
    \/ Boot
    \/ \E id \in WearIds, value \in {<<1>>, Forged} : SetVariable(id, value)

SpecForged == InitWear /\ [][NextForged]_vars

\* ------------------------------------------------------------------------
\* The record codec on its own: records assembled for many ids and values
\* ------------------------------------------------------------------------
\* ids with low byte, high byte or both at their ends
CodecIds == {0, 1, 2, 255, 256, 511, 65280, 65535}
CodecSizes == {0, 1, 2, MAX_VARIABLE_SIZE - 1, MAX_VARIABLE_SIZE}
CodecBytes == {0, 1, 128, 255}
CodecValues == {[i \in 1..n |-> b] : n \in CodecSizes, b \in CodecBytes}

\* FlashManSetVariable assembles flashData for id and value
Assemble(id, value) ==
    /\ last' = [NoCall EXCEPT !.op = "assemble", !.id = id, !.value = value,
                              !.out = AssembleRecord(id, value, Len(value))]
    /\ UNCHANGED <<statics, phase, committed, used, writes, limit, upsets>>

InitCodec == Start(0)

NextCodec == \E id \in CodecIds, value \in CodecValues : Assemble(id, value)

SpecCodec == InitCodec /\ [][NextCodec]_vars

\* ------------------------------------------------------------------------
\* Torn records: the write of a record stops after any number of bytes, the
\* rest of the record stays erased
\* ------------------------------------------------------------------------
TornIds == {1, 2, 23, 256}
TornValues == {<<>>, <<1>>, <<2>>, <<21>>, <<1, 2>>}

\* blank flash with the record rec at the first record offset of sector 1
WithRecord(rec) ==
    [a \in Addr |->
        IF a >= sectorPtr1 + sizeof_flashHeader_t
           /\ a < sectorPtr1 + sizeof_flashHeader_t + sizeof_flashData_t
        THEN rec[a - sectorPtr1 - sizeof_flashHeader_t + 1]
        ELSE 255]

\* the record with its first n bytes programmed
TornRecord(rec, n) ==
    [i \in 1..sizeof_flashData_t |-> IF i <= n THEN rec[i] ELSE 255]

\* the write of the record of (id, value) stops after n bytes and
\* IsVariableRecordValid looks at what is in flash
Tear(id, value, n) ==
    /\ \E torn \in {TornRecord(AssembleRecord(id, value, Len(value)), n)} :
          last' = [NoCall EXCEPT
                     !.op = "tear", !.id = id, !.value = value, !.out = torn,
                     !.ret = IsVariableRecordValid(WithRecord(torn),
                                                   sectorPtr1 + sizeof_flashHeader_t)]
    /\ UNCHANGED <<statics, phase, committed, used, writes, limit, upsets>>

NextTorn == \E id \in TornIds, value \in TornValues, n \in 0..(sizeof_flashData_t - 1) : Tear(id, value, n)

SpecTorn == InitCodec /\ [][NextTorn]_vars

\* ------------------------------------------------------------------------
\* Flash that decays: one bit of a stored record flips, FlashManInit is re-run
\* ------------------------------------------------------------------------
FlipIds == 1..NumFlipIds
\* bytes of a flashData_t after the flag: id, data and checksum
FlipBytes == 1..(sizeof_flashData_t - 1)
FlipBits == 0..7

\* byte with bit b inverted
FlipBit(byte, b) ==
    IF (byte \div (2 ^ b)) % 2 = 1 THEN byte - 2 ^ b ELSE byte + 2 ^ b

\* offsets of the non-blank records of id among the places where records are
\* written in the sector
RecordsOf(m, sectorPtr, id) ==
    {o \in {sizeof_flashHeader_t + k * sizeof_flashData_t : k \in 0..MAX_VARIABLES} :
        m[sectorPtr + o] # DATA_FLAG_BLANK /\ RecId(m, sectorPtr + o) = id}

\* one bit of the record just stored flips; it is the only record of its id
BitFlip(o, b) ==
    /\ phase = "ready"
    /\ upsets < MaxUpsets
    /\ last.op = "set" /\ last.ret /\ last.appendAt >= 0
    /\ RecordsOf(mem, last.appendIn, last.id) = {last.appendAt}
    /\ mem' = [mem EXCEPT ![last.appendIn + last.appendAt + o] = FlipBit(@, b)]
    /\ phase' = "flipped"
    /\ last' = [last EXCEPT !.op = "flip"]
    /\ upsets' = upsets + 1
    \* the run goes on with FlashManInit and reads only
    /\ limit' = writes
    /\ UNCHANGED <<mNumVariables, mLookupTable, validFreeOffset, validSectorPtr,
                   committed, used, writes>>

\* FlashManInit is run again, with or without a reset before it
Rerun ==
    /\ phase = "flipped"
    /\ \E c \in {FlashManInit(Ctx(-1, 0, 0)), FlashManInit(ResetCtx(mem))} :
          /\ Statics(c)
          /\ phase' = IF c.ret THEN "ready" ELSE "boot"
          /\ last' = [Called("init", last.id, last.value, c, <<>>)
                         EXCEPT !.found = Found, !.run = 1,
                                !.appendAt = last.appendAt, !.appendIn = last.appendIn]
    /\ UNCHANGED <<committed, used, writes, limit, upsets>>

InitFlip == Start(FlipWrites)

NextFlip ==
    \/ Boot
    \/ \E id \in FlipIds, value \in Updates : SetVariable(id, value)
    \/ \E o \in FlipBytes, b \in FlipBits : BitFlip(o, b)
    \/ Rerun

SpecFlip == InitFlip /\ [][NextFlip]_vars

\* ------------------------------------------------------------------------
\* What the application observes
\* ------------------------------------------------------------------------
\* FlashManGetVariable(id, out, size) called in the current state
Get(id, size) == FlashManGetVariable(Ctx(-1, 0, 0), id, Buffer(size), size)

TypeOK ==
    /\ \A a \in Addr : mem[a] \in 0..255
    /\ mNumVariables \in 0..MAX_VARIABLES
    /\ validSectorPtr \in {NULL, sectorPtr1, sectorPtr2}

\* ids in the lookup table
TableIds == {mLookupTable[i].id : i \in 0..(mNumVariables - 1)}

\* record slots of a sector: those that lie wholly inside it
Slots == 0..(MAX_VARIABLES - 1)
SlotOffset(k) == sizeof_flashHeader_t + k * sizeof_flashData_t

\* sizes a reader asks for
GetSizes == {1, 2}

\* the last call was a FlashManSetVariable that handed a record to
\* SetVariableRecord, and the flash where the record went differs from it
ReadBackDiffers ==
    /\ last.op = "set"
    /\ last.appendAt >= 0
    /\ \E i \in 0..(sizeof_flashData_t - 1) :
          mem[last.appendIn + last.appendAt + i] #
              AssembleRecord(last.id, last.value, Len(last.value))[i + 1]

\* the sector that validSectorPtr does not point to
OtherSector(sectorPtr) == IF sectorPtr = sectorPtr1 THEN sectorPtr2 ELSE sectorPtr1

\* all SECTOR_SIZE bytes of the sector are erased
Blank(m, sectorPtr) == \A o \in 0..(SECTOR_SIZE - 1) : m[sectorPtr + o] = 255

\* the bytes of the sector are the same in both flashes
SameSector(m1, m2, sectorPtr) ==
    \A o \in 0..(SECTOR_SIZE - 1) : m1[sectorPtr + o] = m2[sectorPtr + o]

\* ------------------------------------------------------------------------
\* Properties
\* ------------------------------------------------------------------------

\* C1: crash safety.  After a power loss during FlashManSetVariable, a reset
\* and a FlashManInit that returned true, FlashManGetVariable returns true and
\* the value of the last completed set for every id that had a
\* FlashManSetVariable return true before the interrupted call.
C1_CrashSafe ==
    (last.op = "init" /\ last.ret /\ upsets > 0) =>
        \A id \in Ids :
            committed[id] # <<>> =>
                Get(id, Len(committed[id])) = [status |-> TRUE, value |-> committed[id]]

\* C11: at rest exactly one sector is Valid.  After a FlashManInit that
\* returned true and after every later FlashManSetVariable, the header of the
\* sector validSectorPtr points to reads Valid and the header of the other
\* sector reads Empty or Invalid.
C11_OneValidAtRest ==
    ((last.op = "init" /\ last.ret) \/ (last.op = "set" /\ phase = "ready")) =>
        /\ validSectorPtr \in {sectorPtr1, sectorPtr2}
        /\ SectorFlag(mem, validSectorPtr) = HEADER_FLAG_VALID
        /\ SectorFlag(mem, OtherSector(validSectorPtr)) \in
              {HEADER_FLAG_EMPTY, HEADER_FLAG_INVALID}

\* C12: FlashManInit is idempotent.  A FlashManInit run directly after one
\* that returned true makes no flash write and no erase, leaves the flash as
\* it is, selects the same sector and produces the same lookup table (the
\* same number of entries, with the same ids and offsets).
C12_InitIdempotent ==
    [][(last.op = "init" /\ last.ret /\ last'.op = "init" /\ last'.run = last.run + 1)
        => /\ last'.ret
           /\ last'.calls = 0
           /\ mem' = mem
           /\ validSectorPtr' = validSectorPtr
           /\ mNumVariables' = mNumVariables
           /\ \A i \in 0..(mNumVariables - 1) : mLookupTable'[i] = mLookupTable[i]]_vars
\* a second FlashManInit ran on a sector that holds variables
C12_Witness == last.op = "init" /\ last.run = 2 /\ mNumVariables > 1

\* C13: recovery is total and deterministic.  For every pair of header
\* values found at reset (the four flags or any other value) FlashManInit
\* ends with validSectorPtr at one of the two sectors, and the sector it
\* selects and the two header flags it leaves are those it produces for the
\* same pair of headers over sectors that hold no record: they depend on
\* the header pair only.
C13_RecoveryDeterministic ==
    (last.op = "init" /\ last.run = 1) =>
        /\ validSectorPtr \in {sectorPtr1, sectorPtr2}
        /\ \E ref \in {FlashManInit(ResetCtx(Image(last.found[1], <<>>, last.found[2], <<>>)))} :
             /\ validSectorPtr = ref.validSectorPtr
             /\ SectorFlag(mem, sectorPtr1) = SectorFlag(ref.mem, sectorPtr1)
             /\ SectorFlag(mem, sectorPtr2) = SectorFlag(ref.mem, sectorPtr2)
\* FlashManInit ran on an unrecognized header beside an Initializing sector
\* that holds records
C13_Witness ==
    /\ last.op = "init" /\ last.run = 1
    /\ last.found = <<HEADER_OTHER, HEADER_FLAG_INIT>>
    /\ validSectorPtr = sectorPtr2
    /\ mNumVariables > 1

\* ids of the valid records in the record slots of a sector
RecordIds(m, sectorPtr) ==
    {RecId(m, sectorPtr + SlotOffset(k)) :
        k \in {j \in Slots : IsVariableRecordValid(m, sectorPtr + SlotOffset(j))}}

\* the sector whose header reads flag, of a pair of which one does
SectorWith(found, flag) == IF found[1] = flag THEN sectorPtr1 ELSE sectorPtr2

\* C14: an interrupted swap is rolled back.  When FlashManInit finds one
\* sector Valid and the other Initializing, the Valid sector is the
\* authoritative one afterwards, none of its bytes has changed, every
\* variable with a valid record in it is in the lookup table, and the
\* Initializing sector is blank.
C14_InterruptedSwapRolledBack ==
    [][(/\ phase = "boot" /\ last'.op = "init"
        /\ Found \in {<<HEADER_FLAG_VALID, HEADER_FLAG_INIT>>,
                      <<HEADER_FLAG_INIT, HEADER_FLAG_VALID>>})
        => /\ validSectorPtr' = SectorWith(Found, HEADER_FLAG_VALID)
           /\ SameSector(mem, mem', SectorWith(Found, HEADER_FLAG_VALID))
           /\ Blank(mem', SectorWith(Found, HEADER_FLAG_INIT))
           /\ RecordIds(mem, SectorWith(Found, HEADER_FLAG_VALID))
                \subseteq {mLookupTable'[i].id : i \in 0..(mNumVariables' - 1)}]_vars

LastRecord(m, sectorPtr, id) ==
    CHOOSE o \in {SlotOffset(k) : k \in Slots} :
        /\ IsVariableRecordValid(m, sectorPtr + o) /\ RecId(m, sectorPtr + o) = id
        /\ \A k \in Slots :
              (IsVariableRecordValid(m, sectorPtr + SlotOffset(k))
                 /\ RecId(m, sectorPtr + SlotOffset(k)) = id) => SlotOffset(k) <= o

C17_InvalidPromoted ==
    [][(/\ phase = "boot" /\ last'.op = "init"
        /\ Found \in {<<HEADER_FLAG_EMPTY, HEADER_FLAG_INVALID>>,
                      <<HEADER_FLAG_INVALID, HEADER_FLAG_EMPTY>>})
        => /\ SectorFlag(mem', SectorWith(Found, HEADER_FLAG_INVALID)) = HEADER_FLAG_VALID
           /\ validSectorPtr' = SectorWith(Found, HEADER_FLAG_INVALID)]_vars

\* C18: both sectors Empty, both Invalid or both Initializing.  After
\* FlashManInit sector 1 is Valid and authoritative, sector 2 is blank, the
\* lookup table is empty and validFreeOffset is the offset of the first
\* record.
C18_TieGoesToSector1 ==
    [][(/\ phase = "boot" /\ last'.op = "init"
        /\ Found \in {<<HEADER_FLAG_EMPTY, HEADER_FLAG_EMPTY>>,
                      <<HEADER_FLAG_INVALID, HEADER_FLAG_INVALID>>,
                      <<HEADER_FLAG_INIT, HEADER_FLAG_INIT>>})
        => /\ SectorFlag(mem', sectorPtr1) = HEADER_FLAG_VALID
           /\ validSectorPtr' = sectorPtr1
           /\ Blank(mem', sectorPtr2)
           /\ mNumVariables' = 0
           /\ validFreeOffset' = sizeof_flashHeader_t]_vars

\* the flash with every sector of an unrecognized header blank
AsEmpty(m) ==
    [a \in Addr |->
        IF \E sectorPtr \in {sectorPtr1, sectorPtr2} :
              /\ ~Recognized(SectorFlag(m, sectorPtr))
              /\ a >= sectorPtr /\ a < sectorPtr + SECTOR_SIZE
        THEN 255 ELSE m[a]]

\* offsets at which FlashManSetVariable and SwapSectors write records: the
\* slots inside the sector and the one at the last offset below SECTOR_SIZE
RecordOffsets == {SlotOffset(k) : k \in 0..MAX_VARIABLES}

\* the records written in the sector are the same, byte for byte, in m2
RecordsKept(m1, m2, sectorPtr) ==
    \A o \in RecordOffsets :
        m1[sectorPtr + o] # DATA_FLAG_BLANK =>
            \A i \in 0..(sizeof_flashData_t - 1) :
                m2[sectorPtr + o + i] = m1[sectorPtr + o + i]

\* C19: a header that is none of the four flags.  FlashManInit erases that
\* sector before it decides between the two sectors; the authoritative
\* sector, the final headers and the lookup table are those of FlashManInit
\* on the same flash with that sector Empty; and the erase leaves every
\* record of the other sector as it was.
C19_UnrecognizedNormalised ==
    [][(/\ phase = "boot" /\ last'.op = "init"
        /\ (~Recognized(Found[1]) \/ ~Recognized(Found[2])))
        => \E n \in {InitErase(InitErase(ResetCtx(mem), sectorPtr1), sectorPtr2)},
              ref \in {FlashManInit(ResetCtx(AsEmpty(mem)))} :
             /\ \A sectorPtr \in {sectorPtr1, sectorPtr2} :
                   IF Recognized(SectorFlag(mem, sectorPtr))
                   THEN RecordsKept(mem, n.mem, sectorPtr)
                   ELSE Blank(n.mem, sectorPtr)
             /\ validSectorPtr' = ref.validSectorPtr
             /\ SectorFlag(mem', sectorPtr1) = SectorFlag(ref.mem, sectorPtr1)
             /\ SectorFlag(mem', sectorPtr2) = SectorFlag(ref.mem, sectorPtr2)
             /\ mNumVariables' = ref.mNumVariables
             /\ \A i \in 0..(mNumVariables' - 1) : mLookupTable'[i] = ref.mLookupTable[i]]_vars

\* C20: FlashManGetVariable is read-only.  A call makes no flash write and no
\* erase and leaves the flash, the lookup table, mNumVariables,
\* validFreeOffset and validSectorPtr as they were; when the id is not in the
\* lookup table or size is above MAX_VARIABLE_SIZE it returns false and the
\* caller's buffer is as it was before the call.
C20_GetReadOnly ==
    [][last'.op = "get"
        => /\ last'.calls = 0
           /\ UNCHANGED <<mem, mNumVariables, mLookupTable, validFreeOffset, validSectorPtr>>
           /\ (last'.id \notin TableIds \/ Len(last'.out) > MAX_VARIABLE_SIZE)
                 => (~last'.ret /\ last'.out = Buffer(Len(last'.out)))]_vars
\* FlashManGetVariable was called with size MAX_VARIABLE_SIZE + 1 for a
\* variable that is stored
C20_Witness ==
    /\ last.op = "get" /\ ~last.ret
    /\ last.id \in TableIds
    /\ Len(last.out) = MAX_VARIABLE_SIZE + 1
\* FlashManGetVariable was called for an id that is not in the lookup table,
\* which holds another
C20_WitnessMiss ==
    /\ last.op = "get" /\ ~last.ret
    /\ last.id \notin TableIds
    /\ mNumVariables > 0

\* C21: a size mismatch on get is reported.  FlashManGetVariable(id, out, n)
\* for a variable last stored with size m # n, both sizes at most
\* MAX_VARIABLE_SIZE, returns false and leaves out as it was: no truncated and
\* no padded value is handed back.
C21_SizeMismatchReported ==
    [][(/\ last'.op = "get"
        /\ committed[last'.id] # <<>>
        /\ Len(last'.out) <= MAX_VARIABLE_SIZE
        /\ Len(last'.out) # Len(committed[last'.id]))
        => (~last'.ret /\ last'.out = Buffer(Len(last'.out)))]_vars

\* C22: checksum detection.  After a successful set of an id that has no other
\* record in the sector, one bit of the id, payload or checksum of the stored
\* record flips and FlashManInit is run again: IsVariableRecordValid rejects
\* the record and FlashManGetVariable for that id returns false.
C22_BitFlipDetected ==
    (last.op = "init" /\ last.appendAt >= 0) =>
        /\ ~IsVariableRecordValid(mem, last.appendIn + last.appendAt)
        /\ \A size \in GetSizes : ~Get(last.id, size).status
\* the record that decayed was the first of its id, stored in sector 2 after a
\* swap, and FlashManInit was run again
C22_Witness ==
    /\ last.op = "init" /\ last.appendAt >= 0
    /\ last.appendIn = sectorPtr2
    /\ validSectorPtr = sectorPtr2
    /\ mNumVariables > 0

\* the context after SwapSectors(src, dst) has kept its promises: dst is the
\* authoritative sector, it holds one record per entry of the lookup table
\* the swap started with, in table order, and nothing after them, and every
\* id of that table reads the bytes it read before the swap
SwapDone(sw, dst) ==
    /\ sw.validSectorPtr = dst
    /\ Cardinality(TableIds) = mNumVariables
    /\ \A k \in 0..MAX_VARIABLES :
          IF k < mNumVariables
          THEN /\ RecFlag(sw.mem, dst + SlotOffset(k)) = DATA_FLAG_VALID
               /\ RecId(sw.mem, dst + SlotOffset(k)) = mLookupTable[k].id
          ELSE RecFlag(sw.mem, dst + SlotOffset(k)) = DATA_FLAG_BLANK
    /\ \A id \in TableIds, size \in GetSizes :
          FlashManGetVariable(sw, id, Buffer(size), size) = Get(id, size)

\* C23: swap correctness.  When FlashManSetVariable calls SwapSectors and
\* SwapSectors returns true, then on its return the destination sector is the
\* authoritative one, holds exactly one record per id of the lookup table
\* (mNumVariables records, in table order, none shadowed), and
\* FlashManGetVariable returns for each of these ids the bytes it returned
\* just before the swap.
C23_SwapCorrect ==
    [][(last'.op = "set" /\ last'.swaps > 0)
        => \E sw \in {SwapSectors(Ctx(-1, 0, 0), validSectorPtr, OtherSector(validSectorPtr))} :
              sw.ret => SwapDone(sw, OtherSector(validSectorPtr))]_vars
\* C24: updating a stored variable never fails as store-full.  When id is
\* one of the (at most FlashManGetMaxVariables()) ids of the lookup table,
\* FlashManSetVariable(id, newValue, size) with newValue different from the
\* stored value returns true after at most one swap, whether or not the
\* authoritative sector has a free slot, and FlashManGetVariable(id, out, size)
\* then returns newValue.
C24_UpdateSucceeds ==
    [][\A id \in TableIds, value \in Payloads \cup Updates :
        (/\ last'.op = "set" /\ last'.id = id /\ last'.value = value
         /\ mNumVariables <= FlashManGetMaxVariables
         /\ Get(id, Len(value)).value # value)
        => /\ last'.ret
           /\ last'.swaps <= 1
           /\ Get(id, Len(value))'.status
           /\ Get(id, Len(value))'.value = value]_vars

\* offset of the first place for a record in the sector whose status byte is
\* blank, SECTOR_SIZE when there is none
FirstBlank(m, sectorPtr) ==
    IF \A o \in RecordOffsets : m[sectorPtr + o] # DATA_FLAG_BLANK THEN SECTOR_SIZE
    ELSE CHOOSE o \in RecordOffsets :
           /\ m[sectorPtr + o] = DATA_FLAG_BLANK
           /\ \A p \in RecordOffsets : p < o => m[sectorPtr + p] # DATA_FLAG_BLANK

\* C25: after a FlashManInit that returned true, whatever the two headers
\* were, validFreeOffset is the offset of the first record of the
\* authoritative sector whose status byte is blank, or the sector end when
\* there is none.
C25_FreeOffsetAfterInit ==
    (last.op = "init" /\ last.ret) =>
        validFreeOffset = FirstBlank(mem, validSectorPtr)

\* the last call ended with a ConstructLookupTable: FlashManInit, or a
\* FlashManSetVariable that stored its record
TableBuilt ==
    /\ phase = "ready"
    /\ \/ last.op = "init"
       \/ last.op = "set" /\ last.ret /\ last.appendAt >= 0

\* offsets of the records of the sector that lie before its first blank
\* status byte and pass IsVariableRecordValid
ValidRecords(m, sectorPtr) ==
    {o \in RecordOffsets :
        o < FirstBlank(m, sectorPtr) /\ IsVariableRecordValid(m, sectorPtr + o)}

\* C26: last writer wins.  Whenever ConstructLookupTable has run, each id with
\* at least one valid record among the non-blank records of the authoritative
\* sector is in the lookup table, mapped to the highest offset of such a
\* record, and no other id is in the table.
C26_LastWriterWins ==
    TableBuilt =>
        /\ TableIds = {RecId(mem, validSectorPtr + o) : o \in ValidRecords(mem, validSectorPtr)}
        /\ \A i \in 0..(mNumVariables - 1) :
              /\ mLookupTable[i].offset \in ValidRecords(mem, validSectorPtr)
              /\ \A o \in ValidRecords(mem, validSectorPtr) :
                    RecId(mem, validSectorPtr + o) = mLookupTable[i].id
                        => o <= mLookupTable[i].offset

\* offsets of the records of the sector that lie before its first blank
\* status byte
LiveRecords(m, sectorPtr) == {o \in RecordOffsets : o < FirstBlank(m, sectorPtr)}

\* C27: a record before the first blank status byte that fails validation
\* (status not DATA_FLAG_VALID, or wrong checksum) is not in the lookup table
\* and does not end the scan: the id of every valid record at a higher offset
\* before the first blank status byte has a table entry at that record or at
\* a later one.
C27_InvalidRecordSkipped ==
    TableBuilt =>
        \A o \in LiveRecords(mem, validSectorPtr) \ ValidRecords(mem, validSectorPtr) :
            /\ \A i \in 0..(mNumVariables - 1) : mLookupTable[i].offset # o
            /\ \A p \in ValidRecords(mem, validSectorPtr) :
                  p > o => \E i \in 0..(mNumVariables - 1) :
                              /\ mLookupTable[i].id = RecId(mem, validSectorPtr + p)
                              /\ mLookupTable[i].offset >= p
\* a record torn by a power loss lies in the authoritative sector and a valid
\* record has been stored after it
C27_Witness ==
    /\ phase = "ready" /\ last.op = "set" /\ last.ret
    /\ \E o \in LiveRecords(mem, validSectorPtr) \ ValidRecords(mem, validSectorPtr) :
          \E p \in ValidRecords(mem, validSectorPtr) : p > o /\ p = last.appendAt

\* C28: encode/decode agreement.  For every id, every size up to
\* MAX_VARIABLE_SIZE and every payload, the record FlashManSetVariable
\* assembles consists of bytes, has status DATA_FLAG_VALID, the id, the payload
\* followed by 0x00 up to MAX_VARIABLE_SIZE, and a checksum byte that makes the
\* sum of the id bytes, the data bytes and the checksum 0 mod 256; and
\* IsVariableRecordValid accepts it, also when the byte sum is 0 mod 256.
C28_EncodeDecodeAgree ==
    last.op = "assemble" =>
        /\ Len(last.out) = sizeof_flashData_t
        /\ \A i \in 1..sizeof_flashData_t : last.out[i] \in 0..255
        /\ last.out[1] = DATA_FLAG_VALID
        /\ last.out[2] + 256 * last.out[3] = last.id
        /\ \A i \in 1..MAX_VARIABLE_SIZE :
              last.out[3 + i] = IF i <= Len(last.value) THEN last.value[i] ELSE 0
        /\ SumBytes(last.out, sizeof_flashData_t) % 256 = DATA_FLAG_VALID % 256
        /\ IsVariableRecordValid(WithRecord(last.out), sectorPtr1 + sizeof_flashHeader_t)
\* a record was assembled whose id and data bytes add up to 0 mod 256
C28_Witness ==
    /\ last.op = "assemble"
    /\ last.id = 255 /\ last.value = <<1>>
    /\ last.out[sizeof_flashData_t] = 0

\* the flash after the first step of SwapSectors: the destination is erased
\* when its first byte is programmed
SwapErased(m, dstSectorPtr) ==
    [a \in Addr |->
       IF m[dstSectorPtr] # 255 /\ a >= dstSectorPtr /\ a < dstSectorPtr + SECTOR_SIZE
       THEN 255 ELSE m[a]]

\* the destination holds, from its first slot on, the records of the lookup
\* table as the source had them when they were copied
SwapCopied(m, after, num, table, srcSectorPtr, dstSectorPtr) ==
    \A k \in 0..(num - 1) : \A j \in 0..(sizeof_flashData_t - 1) :
        after[dstSectorPtr + SlotOffset(k) + j] =
            SwapErased(m, dstSectorPtr)[srcSectorPtr + table[k].offset + j]

\* nothing of the sector's records is left: every byte past the place where
\* the record at the last offset of the other sector ends is erased
SwapSourceErased(m, sectorPtr) ==
    \A o \in (SlotOffset(MAX_VARIABLES) + sizeof_flashData_t - SECTOR_SIZE)
               ..(SECTOR_SIZE - 1) : m[sectorPtr + o] = 255

\* the order of the steps of the SwapSectors that a FlashManSetVariable runs,
\* seen in the flash and the pointer that a loss of power at any point leaves:
\* src is the valid sector before the call, dst the other one
SwapOrder(src, dst) ==
    /\ (SectorFlag(mem, src) = HEADER_FLAG_VALID
          /\ SectorFlag(mem', src) # HEADER_FLAG_VALID)
       => SwapCopied(mem, mem', mNumVariables, mLookupTable, src, dst)
    /\ (SectorFlag(mem, dst) # HEADER_FLAG_VALID
          /\ SectorFlag(mem', dst) = HEADER_FLAG_VALID)
       => SectorFlag(mem', src) \in {HEADER_FLAG_INVALID, HEADER_FLAG_EMPTY}
    /\ (SectorFlag(mem, src) # HEADER_FLAG_EMPTY
          /\ SectorFlag(mem', src) = HEADER_FLAG_EMPTY)
       => SectorFlag(mem', dst) = HEADER_FLAG_VALID
    /\ last'.ptr # src
       => /\ SwapSourceErased(mem', src)
          /\ SectorFlag(mem', dst) = HEADER_FLAG_VALID

\* C29: swap step order.  In every FlashManSetVariable that power loss cuts
\* at any point, the flash and the pointer it leaves show the steps of
\* SwapSectors in order: the source header has left Valid only when every
\* record of the lookup table is in the destination, equal to its source; the
\* destination header is Valid only when the source header is Invalid (or the
\* source is already erased); the source is erased only when the destination
\* header is Valid; and validSectorPtr has changed only when the source is
\* erased.
C29_SwapStepOrder ==
    [][(phase = "ready" /\ last'.op = "reset" /\ validSectorPtr # NULL)
         => SwapOrder(validSectorPtr, OtherSector(validSectorPtr))]_vars

\* C29 witness: power was lost in a swap between the write of Valid to the
\* destination header and the erase of the source
C29_Witness ==
    /\ last.op = "reset"
    /\ last.swaps = 1
    /\ \E src \in {sectorPtr1, sectorPtr2} :
          /\ SectorFlag(mem, src) = HEADER_FLAG_INVALID
          /\ SectorFlag(mem, OtherSector(src)) = HEADER_FLAG_VALID

\* C30: header flags only move forward.  No call of FlashManInit or
\* FlashManSetVariable, with the SwapSectors it runs, has made a SetSectorFlags
\* call whose pattern sets a bit that the header in flash had cleared.
C30_FlagsMoveForward == ~last.back

\* C31: headers stay inside the recovery table.  After a successful
\* FlashManInit, at the end of every FlashManSetVariable (with the SwapSectors
\* it runs), at every point where power loss cuts one, and after a later
\* FlashManInit, the header of each sector reads Empty, Initializing, Valid or
\* Invalid.
C31_HeadersRecognized ==
    last.op \in {"init", "set", "reset"} =>
        /\ Recognized(SectorFlag(mem, sectorPtr1))
        /\ Recognized(SectorFlag(mem, sectorPtr2))

\* the value with zeros after its last byte, as AssembleRecord lays it out
ZeroPadded(value) ==
    [i \in 1..MAX_VARIABLE_SIZE |-> IF i <= Len(value) THEN value[i] ELSE 0]

\* C32: the short-circuit needs an identical payload.  After a
\* FlashManSetVariable(id, value, size) that returned true without a flash
\* write, the MAX_VARIABLE_SIZE bytes stored for id are value followed by
\* zeros.
C32_ShortCircuitIdentical ==
    (phase = "ready" /\ last.op = "set" /\ last.ret /\ last.calls = 0) =>
        Get(last.id, MAX_VARIABLE_SIZE) =
            [status |-> TRUE, value |-> ZeroPadded(last.value)]

\* C33: contiguous prefix.  After a FlashManInit on blank sectors and after
\* every later FlashManSetVariable, failed ones included, no record place of
\* the sector validSectorPtr points to with a blank status byte lies below
\* one with a programmed status byte, and every record place at or after
\* validFreeOffset has a blank status byte.
C33_ContiguousPrefix ==
    (phase = "ready" /\ last.op \in {"init", "set"}) =>
        /\ \A o1, o2 \in RecordOffsets :
              (o1 < o2 /\ mem[validSectorPtr + o1] = DATA_FLAG_BLANK)
                  => mem[validSectorPtr + o2] = DATA_FLAG_BLANK
        /\ \A o \in RecordOffsets :
              o >= validFreeOffset => mem[validSectorPtr + o] = DATA_FLAG_BLANK

\* C34: the copy of a swap starts on an erased destination.  No call of
\* FlashManInit or FlashManSetVariable has run a SwapSectors whose copy loop
\* started while a byte of the destination after its header was programmed.
C34_CopyIntoBlank == ~last.dirty

\* C35: no torn record is accepted.  When the write of the record of any id
\* and payload stops before its last byte is programmed, IsVariableRecordValid
\* rejects what is in flash, unless the bytes in flash are already those of
\* the complete record.
C35_TornRejected ==
    (last.op = "tear"
       /\ last.out # AssembleRecord(last.id, last.value, Len(last.value)))
        => ~last.ret

\* C36: never two Valid sectors.  After a FlashManInit that returned true, at
\* the end of every FlashManSetVariable (with the SwapSectors it runs) and at
\* every point where power loss cuts one, at most one of the two sector
\* headers reads Valid.
C36_NeverBothValid ==
    last.op \in {"init", "set", "reset"} =>
        ~(/\ SectorFlag(mem, sectorPtr1) = HEADER_FLAG_VALID
          /\ SectorFlag(mem, sectorPtr2) = HEADER_FLAG_VALID)

\* C37: a failed swap changes no static.  When the SwapSectors that a
\* FlashManSetVariable runs returns false, validSectorPtr, validFreeOffset,
\* mNumVariables and the lookup table are after the call what they were
\* before it, the call returns false and no record was handed to
\* SetVariableRecord for the new value.
C37_FailedSwapKeepsStatics ==
    [][(last'.op = "set" /\ last'.swapFailed) =>
          /\ validSectorPtr' = validSectorPtr
          /\ validFreeOffset' = validFreeOffset
          /\ mNumVariables' = mNumVariables
          /\ mLookupTable' = mLookupTable
          /\ ~last'.ret
          /\ last'.appendAt = -1]_vars

\* C37 witness: a FlashManSetVariable ran a SwapSectors that went as far as
\* writing the destination and returned false
C37_Witness ==
    /\ last.op = "set"
    /\ last.swapFailed
    /\ last.swaps = 1
    /\ ~Blank(mem, OtherSector(validSectorPtr))

\* C38: the lookup table stays within bounds and has no duplicate.  In every
\* state mNumVariables is at most MAX_VARIABLES and no two of the first
\* mNumVariables entries of the lookup table have the same id.
C38_TableBounded ==
    /\ mNumVariables <= MAX_VARIABLES
    /\ \A i, j \in 0..(mNumVariables - 1) :
          mLookupTable[i].id = mLookupTable[j].id => i = j

\* C38 witness: the table is full and the sector holds one more valid record,
\* of an id that is not in the table
C38_Witness ==
    /\ TableBuilt
    /\ mNumVariables = MAX_VARIABLES
    /\ \E o \in ValidRecords(mem, validSectorPtr) :
          RecId(mem, validSectorPtr + o) \notin TableIds

\* C39: the lookup table points at valid records.  After a FlashManInit that
\* returned true and after every FlashManSetVariable that returns, each of the
\* first mNumVariables entries of the lookup table has the offset of a record
\* slot below validFreeOffset that lies wholly inside the sector, and the
\* record at that offset of the sector validSectorPtr points to has status
\* DATA_FLAG_VALID, a matching checksum and the id of the entry.
C39_TableEntriesValid ==
    (phase = "ready" /\ ((last.op = "init" /\ last.ret) \/ last.op = "set")) =>
        \A i \in 0..(mNumVariables - 1) :
            /\ \E k \in Slots : mLookupTable[i].offset = SlotOffset(k)
            /\ mLookupTable[i].offset < validFreeOffset
            /\ mLookupTable[i].offset + sizeof_flashData_t <= SECTOR_SIZE
            /\ IsVariableRecordValid(mem, validSectorPtr + mLookupTable[i].offset)
            /\ RecId(mem, validSectorPtr + mLookupTable[i].offset) = mLookupTable[i].id

\* C2: round trip.  After a FlashManSetVariable(id, value, size) that returned
\* true, FlashManGetVariable(id, out, size) returns true and out = value.
C2_RoundTrip ==
    (last.op = "set" /\ last.ret /\ Len(last.value) <= MAX_VARIABLE_SIZE) =>
        LET r == Get(last.id, Len(last.value))
        IN r.status /\ r.value = last.value

\* C3: a failed set loses nothing.  When FlashManSetVariable returns false,
\* every id that FlashManGetVariable returned true for before the call still
\* reads true, with the same bytes, after it.
C3_FailedSetLosesNothing ==
    [][(last'.op = "set" /\ ~last'.ret)
        => \A id \in Ids, size \in GetSizes :
              Get(id, size).status => Get(id, size)' = Get(id, size)]_vars

\* C4: idempotence.  A FlashManSetVariable that repeats, with the same id and
\* bytes, the call before it that returned true, returns true, makes no flash
\* write or erase and leaves the flash and the statics as they are.
C4_Idempotent ==
    [][(last.op = "set" /\ last.ret /\ last'.op = "set"
          /\ last'.id = last.id /\ last'.value = last.value)
        => (last'.ret /\ last'.calls = 0 /\ UNCHANGED statics)]_vars

\* C5: FlashManSetVariable with size > MAX_VARIABLE_SIZE returns false, makes
\* no flash write or erase, and leaves the flash, validFreeOffset, the lookup
\* table and validSectorPtr as they are.
C5_OversizeRejected ==
    [][(last'.op = "set" /\ Len(last'.value) > MAX_VARIABLE_SIZE)
        => (~last'.ret /\ last'.calls = 0 /\ UNCHANGED statics)]_vars
\* an oversize set was made with the valid sector full and no swap done yet
C5_Witness ==
    /\ last.op = "set" /\ Len(last.value) > MAX_VARIABLE_SIZE
    /\ validFreeOffset >= SECTOR_SIZE
    /\ mNumVariables > 0

\* C6 as stated: when the read-back of the record written by
\* FlashManSetVariable differs from the record, the call returns false and
\* validFreeOffset, mNumVariables and the lookup table are as before the call.
C6_UnchangedByCall ==
    [][ReadBackDiffers'
        => (~last'.ret /\ UNCHANGED <<validFreeOffset, mNumVariables, mLookupTable>>)]_vars
\* C6, amended: when the read-back of the record written by
\* FlashManSetVariable differs from the record, the call returns false and
\* validFreeOffset, mNumVariables and the lookup table are as they were when
\* the record was handed to SetVariableRecord: as before the call when the
\* call did not swap, as SwapSectors left them when it did.
C6_UnchangedByWrite ==
    ReadBackDiffers =>
        /\ ~last.ret
        /\ validFreeOffset = last.appendAt
        /\ mNumVariables = last.appendNum
        /\ mLookupTable = last.appendTable
\* a record write failed its read-back after the call had swapped sectors
C6_Witness == ReadBackDiffers /\ last.swaps > 0

\* C7: store full.  With MAX_VARIABLES distinct ids in the lookup table and
\* every record slot of the valid sector occupied, FlashManSetVariable for an
\* id that is not in the table returns false.
C7_StoreFull ==
    [][(/\ phase = "ready"
        /\ mNumVariables = FlashManGetMaxVariables
        /\ \A k \in Slots : mem[validSectorPtr + SlotOffset(k)] # DATA_FLAG_BLANK
        /\ last'.op = "set" /\ last' # last
        /\ last'.id \notin TableIds)
        => ~last'.ret]_vars

\* C8: no record write goes past the end of its sector: every record written
\* by FlashManSetVariable or SwapSectors ends at or before SECTOR_SIZE, and a
\* record is appended only at the offset of one of the MAX_VARIABLES slots.
C8_InsideSector ==
    /\ last.hi <= SECTOR_SIZE
    /\ last.appendAt >= 0 => \E k \in Slots : last.appendAt = SlotOffset(k)

\* C9: FlashManSetVariable swaps exactly when the valid sector has no room for
\* one more whole record at the moment a record must be appended.
C9_SwapWhenNoRoom ==
    (last.op = "set" /\ last.freeAtCheck >= 0) =>
        (last.swaps > 0 <=> last.freeAtCheck + sizeof_flashData_t > SECTOR_SIZE)

\* C10: capacity is usable.  From blank sectors and a successful FlashManInit,
\* setting up to FlashManGetMaxVariables() pairwise distinct ids succeeds every
\* time and each of them reads back the value that was set; and
\* FlashManGetMaxVariables() is floor((SECTOR_SIZE - header) / record).
OnlyDistinctIdsSet == phase = "ready" /\ writes = used /\ last.op \in {"init", "set"}
C10_CapacityUsable ==
    /\ FlashManGetMaxVariables = (SECTOR_SIZE - sizeof_flashHeader_t) \div sizeof_flashData_t
    /\ (OnlyDistinctIdsSet /\ used <= FlashManGetMaxVariables) =>
          /\ last.op = "set" => last.ret
          /\ \A id \in 1..used :
                /\ committed[id] # <<>>
                /\ Get(id, Len(committed[id])) =
                      [status |-> TRUE, value |-> committed[id]]
C10_Witness ==
    /\ OnlyDistinctIdsSet
    /\ used = FlashManGetMaxVariables
    /\ last.op = "set" /\ last.id = FlashManGetMaxVariables

====
